---- MODULE Spec2Model ----
(***************************************************************************)
(* A model of the recipe API: the recipe, tag and ingredient viewsets of   *)
(* app/recipe/views.py and the nested serializers of                       *)
(* app/recipe/serializers.py, over a store of Recipe, Tag and Ingredient   *)
(* rows.  One action per request handler; a handler runs to completion.    *)
(***************************************************************************)
EXTENDS Integers, Sequences, FiniteSets, TLC

(***************************************************************************)
(* Bounds of the model.                                                    *)
(***************************************************************************)
\* rows ever inserted per table (identifiers are never reused)
MaxRecipes == 2
MaxTags == 3
MaxIngredients == 2
\* requests handled in one behaviour
MaxRequests == 3
\* entries in a tags or ingredients list of a payload
MaxListLen == 2
\* segments in an id-list query parameter
MaxParamLen == 2
\* failed database checks of one run of wait_for_db
MaxRetries == 3

(***************************************************************************)
(* Value domains.                                                          *)
(***************************************************************************)
Users == {"u1", "u2"}
TagNames == {"a", "b"}
IngredientNames == {"x", "y"}
\* the collation order of the names ("-name" sorts by it, descending)
NameRank(n) ==
    CASE n = "a" -> 1 [] n = "b" -> 2 [] n = "x" -> 3 [] n = "y" -> 4

\* the writable scalar fields of RecipeDetailSerializer
ScalarFields == {"title", "time_minutes", "price", "link", "description"}
\* the fields a create or a full update must carry
RequiredFields == {"title", "time_minutes", "price"}
ScalarValues == {"v1", "v2"}
Blank == ""

\* An optional value is a set with at most one element: {} is "key absent".
Absent == {}
Some(v) == {v}
The(o) == CHOOSE v \in o : TRUE

\* HTTP status codes
HTTP_200_OK == 200
HTTP_201_CREATED == 201
HTTP_204_NO_CONTENT == 204
HTTP_400_BAD_REQUEST == 400
HTTP_401_UNAUTHORIZED == 401
HTTP_404_NOT_FOUND == 404
HTTP_405_METHOD_NOT_ALLOWED == 405
HTTP_500_INTERNAL_SERVER_ERROR == 500

(***************************************************************************)
(* The store.                                                              *)
(*   recipes      id -> [user, scalars, tags, ingredients]; tags and       *)
(*                ingredients are the rows of the many-to-many link        *)
(*                tables of the recipe: child id -> number of link rows    *)
(*   tags         id -> [user, name]                                       *)
(*   ingredients  id -> [user, name]                                       *)
(*   next*Id      the auto-increment sequences of the three tables         *)
(*   last         the last request and its response                        *)
(*   nreq         requests handled so far                                  *)
(*   credential   the Authorization header of the last request             *)
(*   blobs        the blob store: path -> [recipe, content]                *)
(*   nextBlobId   the next generated path of the blob store                *)
(*   inflight     the requests being handled concurrently, by worker       *)
(*   command      the state of the wait_for_db management command          *)
(*   database     whether the database accepts connections                 *)
(***************************************************************************)
VARIABLES recipes, tags, ingredients, nextRecipeId, nextTagId,
          nextIngredientId, last, nreq, credential, blobs, nextBlobId,
          inflight, command, database

vars == <<recipes, tags, ingredients, nextRecipeId, nextTagId,
          nextIngredientId, last, nreq, credential, blobs, nextBlobId,
          inflight, command, database>>
store == <<recipes, tags, ingredients, nextRecipeId, nextTagId,
           nextIngredientId>>

EmptyTable == [i \in {} |-> 0]

NoParams == [tags |-> Absent, ingredients |-> Absent, assigned_only |-> Absent]
NoPayload ==
    [scalars |-> EmptyTable, tags |-> Absent, ingredients |-> Absent,
     name |-> Absent, user |-> Absent, image |-> Absent]

\* the gunicorn/runserver workers that handle requests concurrently
Workers == {1, 2}
\* a worker that handles no request
IdleWorker ==
    [pc |-> "idle", op |-> "none", user |-> "u1", pk |-> 0,
     payload |-> NoPayload, instance |-> EmptyTable, phases |-> <<>>,
     todo |-> <<>>, obj |-> 0, status |-> 0]
\* wait_for_db before handle() is entered
NotStarted ==
    [pc |-> "start", db_up |-> FALSE, out |-> <<>>, slept |-> 0,
     caught |-> <<>>, error |-> "none"]

Init ==
    /\ credential = Absent
    /\ blobs = EmptyTable
    /\ nextBlobId = 1
    /\ inflight = [w \in Workers |-> IdleWorker]
    /\ command = NotStarted
    /\ database = "down"
    /\ recipes = EmptyTable
    /\ tags = EmptyTable
    /\ ingredients = EmptyTable
    /\ nextRecipeId = 1
    /\ nextTagId = 1
    /\ nextIngredientId = 1
    /\ nreq = 0
    /\ last = [op |-> "none", user |-> "u1", pk |-> 0, params |-> NoParams,
               payload |-> NoPayload, status |-> 0, data |-> <<>>]

(***************************************************************************)
(* Store primitives (the ORM calls the handlers make).                     *)
(***************************************************************************)
\* table with a row inserted under id
Insert(table, id, row) ==
    [i \in DOMAIN table \cup {id} |-> IF i = id THEN row ELSE table[i]]
\* table without the row id
Remove(table, id) == [i \in DOMAIN table \ {id} |-> table[i]]

\* add() that inserts a link row without looking for an existing one
M2MAdd_unchecked(links, id) ==
    IF id \in DOMAIN links THEN [links EXCEPT ![id] = @ + 1]
    ELSE Insert(links, id, 1)

\* related manager add(): a link row is inserted unless one exists already
M2MAdd(links, id) ==
    IF id \in DOMAIN links THEN links ELSE Insert(links, id, 1)
\* clear() that deletes nothing
M2MClear_keep(links) == links
\* related manager clear(): every link row of the recipe is deleted
M2MClear(links) == EmptyTable

\* the store as one value, for the operators that compute a handler's effect
DB ==
    [recipes |-> recipes, tags |-> tags, ingredients |-> ingredients,
     nextRecipeId |-> nextRecipeId, nextTagId |-> nextTagId,
     nextIngredientId |-> nextIngredientId]

(***************************************************************************)
(* RecipeSerializer: the child-collection reconciler.                      *)
(***************************************************************************)
\* a lookup that never finds a row (create instead of get_or_create)
Matching_none(rows, auth_user, name) == {}
\* a lookup by name alone, without user=auth_user
Matching_any_user(rows, auth_user, name) ==
    {i \in DOMAIN rows : rows[i].name = name}

\* Manager.get_or_create(user=auth_user, name=name) on a child table:
\* the rows the lookup matches
Matching(rows, auth_user, name) ==
    {i \in DOMAIN rows : rows[i].user = auth_user /\ rows[i].name = name}

\* RecipeSerializer._get_or_create_tags: for each tag of the list, in order,
\* get or create the caller's Tag of that name and add it to recipe.tags.
\* get() raises MultipleObjectsReturned when the caller owns several rows of
\* the name; the loop stops there (ok = FALSE) with what it did so far.
RECURSIVE get_or_create_tags(_, _, _, _, _)
get_or_create_tags(names, links, rows, nextId, auth_user) ==
    IF names = <<>>
    THEN [ok |-> TRUE, links |-> links, rows |-> rows, nextId |-> nextId]
    ELSE LET found == Matching(rows, auth_user, Head(names))
         IN  IF Cardinality(found) > 1
             THEN [ok |-> FALSE, links |-> links, rows |-> rows,
                   nextId |-> nextId]
             ELSE IF found = {}
             THEN get_or_create_tags(
                      Tail(names), M2MAdd(links, nextId),
                      Insert(rows, nextId,
                             [user |-> auth_user, name |-> Head(names)]),
                      nextId + 1, auth_user)
             ELSE get_or_create_tags(
                      Tail(names), M2MAdd(links, The(found)), rows, nextId,
                      auth_user)

\* RecipeSerializer._get_or_create_ingredients: the same loop on Ingredient
RECURSIVE get_or_create_ingredients(_, _, _, _, _)
get_or_create_ingredients(names, links, rows, nextId, auth_user) ==
    IF names = <<>>
    THEN [ok |-> TRUE, links |-> links, rows |-> rows, nextId |-> nextId]
    ELSE LET found == Matching(rows, auth_user, Head(names))
         IN  IF Cardinality(found) > 1
             THEN [ok |-> FALSE, links |-> links, rows |-> rows,
                   nextId |-> nextId]
             ELSE IF found = {}
             THEN get_or_create_ingredients(
                      Tail(names), M2MAdd(links, nextId),
                      Insert(rows, nextId,
                             [user |-> auth_user, name |-> Head(names)]),
                      nextId + 1, auth_user)
             ELSE get_or_create_ingredients(
                      Tail(names), M2MAdd(links, The(found)), rows, nextId,
                      auth_user)

\* the store after the tags step of create/update on recipe id
WithTags(db, id, r) ==
    [db EXCEPT !.recipes[id].tags = r.links, !.tags = r.rows,
               !.nextTagId = r.nextId]
\* the store after the ingredients step of create/update on recipe id
WithIngredients(db, id, r) ==
    [db EXCEPT !.recipes[id].ingredients = r.links, !.ingredients = r.rows,
               !.nextIngredientId = r.nextId]

\* Recipe.objects.create(**validated_data): the row of a new recipe; link and
\* description are blank unless given
NewRecipe(auth_user, scalars) ==
    [user |-> auth_user,
     scalars |-> [f \in ScalarFields |->
                     IF f \in DOMAIN scalars THEN scalars[f] ELSE Blank],
     tags |-> EmptyTable,
     ingredients |-> EmptyTable,
     image |-> Absent]

\* RecipeSerializer.create, called by perform_create with user=request.user:
\* the recipe row is inserted first, then the tags are reconciled, then the
\* ingredients.  An exception in a step ends the request there (ok = FALSE).
create(db, auth_user, payload) ==
    LET id == db.nextRecipeId
        tagList == IF payload.tags = Absent THEN <<>> ELSE The(payload.tags)
        ingList == IF payload.ingredients = Absent THEN <<>>
                   ELSE The(payload.ingredients)
        db1 == [db EXCEPT
                   !.recipes = Insert(@, id, NewRecipe(auth_user, payload.scalars)),
                   !.nextRecipeId = id + 1]
        t == get_or_create_tags(tagList, db1.recipes[id].tags, db1.tags,
                                db1.nextTagId, auth_user)
        db2 == WithTags(db1, id, t)
        g == get_or_create_ingredients(ingList, db2.recipes[id].ingredients,
                                       db2.ingredients, db2.nextIngredientId,
                                       auth_user)
        db3 == WithIngredients(db2, id, g)
    IN  IF ~t.ok THEN [ok |-> FALSE, db |-> db2]
        ELSE IF ~g.ok THEN [ok |-> FALSE, db |-> db3]
        ELSE [ok |-> TRUE, db |-> db3]

\* a setattr loop that is also given the user key of the payload
SetAttrs_with_user(db, id, payload) ==
    [db EXCEPT !.recipes[id].scalars =
                  [f \in ScalarFields |->
                      IF f \in DOMAIN payload.scalars THEN payload.scalars[f]
                      ELSE @[f]],
               !.recipes[id].user =
                  IF payload.user = Absent THEN @ ELSE The(payload.user)]

\* the setattr loop over the remaining validated fields and instance.save();
\* validated_data holds serializer fields only, so a user key never gets here
SetAttrs(db, id, payload) ==
    [db EXCEPT !.recipes[id].scalars =
        [f \in ScalarFields |->
            IF f \in DOMAIN payload.scalars THEN payload.scalars[f] ELSE @[f]]]

\* the steps of RecipeSerializer.update for the popped tags and ingredients:
\* a collection that is not None is cleared and reconciled, tags first; then
\* the remaining validated fields are set and the instance saved.  An
\* exception in a step ends the request there (ok = FALSE).
UpdateInstance(db, id, auth_user, tagList, ingredientList, payload) ==
    LET t == IF tagList = Absent
             THEN [ok |-> TRUE, links |-> db.recipes[id].tags,
                   rows |-> db.tags, nextId |-> db.nextTagId]
             ELSE get_or_create_tags(The(tagList),
                                     M2MClear(db.recipes[id].tags), db.tags,
                                     db.nextTagId, auth_user)
        db1 == WithTags(db, id, t)
        g == IF ingredientList = Absent
             THEN [ok |-> TRUE, links |-> db1.recipes[id].ingredients,
                   rows |-> db1.ingredients, nextId |-> db1.nextIngredientId]
             ELSE get_or_create_ingredients(
                      The(ingredientList),
                      M2MClear(db1.recipes[id].ingredients), db1.ingredients,
                      db1.nextIngredientId, auth_user)
        db2 == WithIngredients(db1, id, g)
    IN  IF ~t.ok THEN [ok |-> FALSE, db |-> db1]
        ELSE IF ~g.ok THEN [ok |-> FALSE, db |-> db2]
        ELSE [ok |-> TRUE, db |-> SetAttrs(db2, id, payload)]

\* update with pop("tags", []) and pop("ingredients", []), as create has it
update_default_empty(db, id, auth_user, payload) ==
    UpdateInstance(db, id, auth_user,
                   IF payload.tags = Absent THEN Some(<<>>) ELSE payload.tags,
                   IF payload.ingredients = Absent THEN Some(<<>>)
                   ELSE payload.ingredients,
                   payload)

\* RecipeSerializer.update: tags = pop("tags", None), ingredients =
\* pop("ingredients", None)
update(db, id, auth_user, payload) ==
    UpdateInstance(db, id, auth_user, payload.tags, payload.ingredients,
                   payload)

\* serializer.is_valid(): a create or a full update needs the required
\* fields; a partial update needs none.  Keys that are no serializer field
\* (user) are dropped.
is_valid(payload, partial) ==
    partial \/ RequiredFields \subseteq DOMAIN payload.scalars

(***************************************************************************)
(* Query parameters.  A raw id-list parameter is the sequence of segments  *)
(* str.split(",") yields: the empty string is <<"">>.                      *)
(***************************************************************************)
\* the strings int() accepts, among those the model sends
IntTokens == {"0", "1", "2", " 2", "3"}
\* int(str_id)
IntOf(s) ==
    CASE s = "0" -> 0 [] s = "1" -> 1 [] s = "2" -> 2 [] s = " 2" -> 2
      [] s = "3" -> 3

\* "if tags:" -- the parameter is given and is not the empty string
Truthy(param) == param # Absent /\ The(param) # <<"">>

\* RecipeViewSet._params_to_ints: int() of every segment; one segment that
\* is no integer raises ValueError (ok = FALSE)
params_to_ints(qs) ==
    [ok |-> \A i \in 1..Len(qs) : qs[i] \in IntTokens,
     ids |-> {IntOf(qs[i]) : i \in {j \in 1..Len(qs) : qs[j] \in IntTokens}}]

(***************************************************************************)
(* Querysets.  A queryset is the sequence of its result rows (ids): a      *)
(* filter across a many-to-many relation yields one row per matching link  *)
(* row, distinct() removes the repeated rows.                              *)
(***************************************************************************)
RECURSIVE SumOver(_, _)
SumOver(f, S) ==
    IF S = {} THEN 0
    ELSE LET i == CHOOSE j \in S : TRUE IN f[i] + SumOver(f, S \ {i})

RECURSIVE Repeat(_, _)
Repeat(x, n) == IF n <= 0 THEN <<>> ELSE <<x>> \o Repeat(x, n - 1)

Max(S) == CHOOSE m \in S : \A k \in S : k <= m

Elems(seq) == {seq[i] : i \in 1..Len(seq)}

\* order_by("-id") of the rows: ids with their multiplicities, descending
RECURSIVE OrderByIdDesc(_, _)
OrderByIdDesc(ids, mult) ==
    IF ids = {} THEN <<>>
    ELSE Repeat(Max(ids), mult[Max(ids)])
             \o OrderByIdDesc(ids \ {Max(ids)}, mult)

\* a queryset without distinct()
Distinct_none(seq) == seq

\* distinct(): each row once, at its first position
RECURSIVE Distinct(_)
Distinct(seq) ==
    IF seq = <<>> THEN <<>>
    ELSE LET front == Distinct(SubSeq(seq, 1, Len(seq) - 1))
             x == seq[Len(seq)]
         IN  IF x \in Elems(front) THEN front ELSE Append(front, x)

\* the link rows of links whose child id is in ids
LinkRows(links, ids) == SumOver(links, DOMAIN links \cap ids)

\* the body of RecipeViewSet.get_queryset over the recipes in scope: the tags
\* filter, the ingredients filter, order_by("-id"), distinct()
FilterRecipes(db, scope, params) ==
    LET byTags == Truthy(params.tags)
        byIngredients == Truthy(params.ingredients)
        tag_ids == IF byTags THEN params_to_ints(The(params.tags))
                   ELSE [ok |-> TRUE, ids |-> {}]
        ingredient_ids ==
            IF byIngredients THEN params_to_ints(The(params.ingredients))
            ELSE [ok |-> TRUE, ids |-> {}]
        mult == [r \in DOMAIN db.recipes |->
                    (IF byTags THEN LinkRows(db.recipes[r].tags, tag_ids.ids)
                     ELSE 1)
                    * (IF byIngredients
                       THEN LinkRows(db.recipes[r].ingredients,
                                     ingredient_ids.ids)
                       ELSE 1)]
    IN  IF ~tag_ids.ok \/ ~ingredient_ids.ok
        THEN [ok |-> FALSE, rows |-> <<>>]
        ELSE [ok |-> TRUE, rows |-> Distinct(OrderByIdDesc(scope, mult))]

\* get_queryset without filter(user=self.request.user)
get_queryset_all_users(db, user, params) ==
    FilterRecipes(db, DOMAIN db.recipes, params)

\* RecipeViewSet.get_queryset: the rows of the caller
get_queryset(db, user, params) ==
    FilterRecipes(db, {r \in DOMAIN db.recipes : db.recipes[r].user = user},
                  params)

\* order_by("-name") of the rows: every order the store may return, rows of
\* equal name in any order
RECURSIVE OrderByNameDesc(_, _, _)
OrderByNameDesc(rows, ids, mult) ==
    IF ids = {} THEN {<<>>}
    ELSE UNION {
            {Repeat(i, mult[i]) \o rest :
                rest \in OrderByNameDesc(rows, ids \ {i}, mult)} :
            i \in {j \in ids : \A k \in ids :
                       NameRank(rows[j].name) >= NameRank(rows[k].name)}}

\* a join that yields every child row once, linked or not
LinksTo_one(recs, field, id, rs) == 1

\* the link rows that reference child id, over all recipes
RECURSIVE LinksTo(_, _, _, _)
LinksTo(recs, field, id, rs) ==
    IF rs = {} THEN 0
    ELSE LET r == CHOOSE j \in rs : TRUE
         IN  (IF id \in DOMAIN recs[r][field] THEN recs[r][field][id] ELSE 0)
                 + LinksTo(recs, field, id, rs \ {r})

\* BaseRecipeArrtViewSet.get_queryset on the child table rows, linked from
\* recipes through field: the results it may return
attr_get_queryset(rows, recs, field, user, params) ==
    LET given == params.assigned_only # Absent
        valid == ~given \/ The(params.assigned_only) \in IntTokens
        assigned_only == given /\ valid /\ IntOf(The(params.assigned_only)) # 0
        mult == [t \in DOMAIN rows |->
                    IF assigned_only
                    THEN LinksTo(recs, field, t, DOMAIN recs) ELSE 1]
        owned == {t \in DOMAIN rows : rows[t].user = user}
    IN  IF ~valid THEN [ok |-> FALSE, results |-> {<<>>}]
        ELSE [ok |-> TRUE,
              results |-> {Distinct(q) : q \in OrderByNameDesc(rows, owned, mult)}]

\* get_object over Recipe.objects.all()
get_object_all_users(db, user, pk) == pk \in DOMAIN db.recipes

\* GenericAPIView.get_object of the recipe viewset: the row pk of the
\* caller's queryset, or Http404
get_object(db, user, pk) ==
    pk \in Elems(get_queryset(db, user, NoParams).rows)

\* get_object of the tag and ingredient viewsets
attr_get_object(rows, recs, field, user, pk) ==
    \E q \in attr_get_queryset(rows, recs, field, user, NoParams).results :
        pk \in Elems(q)

\* Model.delete() of a child row: the row and the link rows that reference it
Unlink(recs, field, id) ==
    [r \in DOMAIN recs |->
        IF id \in DOMAIN recs[r][field]
        THEN [recs[r] EXCEPT ![field] = Remove(@, id)] ELSE recs[r]]

(***************************************************************************)
(* The requests the model sends.                                           *)
(***************************************************************************)
SeqsUpTo(S, n) == UNION {[1..k -> S] : k \in 0..n}

\* scalar parts of a payload: the keys present, all set to one value
ScalarKeySets ==
    {{}, {"title"}, {"link", "description"}, RequiredFields, ScalarFields}
ScalarPayloads ==
    {[f \in K |-> v] : K \in ScalarKeySets, v \in ScalarValues}
Basics == {[f \in K |-> "v1"] : K \in {{}, RequiredFields}}

TagLists == SeqsUpTo(TagNames, MaxListLen)
IngredientLists == SeqsUpTo(IngredientNames, MaxListLen)

\* recipe payloads: scalars alone; a tags list; an ingredients list; both
\* lists; a user key
RecipePayloads ==
    {[NoPayload EXCEPT !.scalars = f] : f \in ScalarPayloads}
    \cup {[NoPayload EXCEPT !.scalars = f, !.tags = Some(l)] :
             f \in Basics, l \in TagLists}
    \cup {[NoPayload EXCEPT !.scalars = f, !.ingredients = Some(l)] :
             f \in Basics, l \in IngredientLists}
    \cup {[NoPayload EXCEPT !.scalars = f, !.tags = Some(l), !.ingredients = Some(m)] :
             f \in Basics, l \in {<<>>, <<"a">>}, m \in {<<>>, <<"x">>}}
    \cup {[NoPayload EXCEPT !.scalars = f, !.user = Some(u)] :
             f \in Basics \cup {[k \in {"title"} |-> "v2"]}, u \in Users}

\* tag and ingredient payloads: the name, or nothing
AttrPayloads(names) ==
    {[NoPayload EXCEPT !.name = n] : n \in {Absent} \cup {Some(x) : x \in names}}

\* id-list parameters: absent, empty, or up to MaxParamLen segments
IdSegments == {"1", " 2", "x"}
IdLists == {Some(q) : q \in SeqsUpTo(IdSegments, MaxParamLen) \ {<<>>}}
               \cup {Absent, Some(<<"">>)}
RecipeParams ==
    {[NoParams EXCEPT !.tags = t] : t \in IdLists}
    \cup {[NoParams EXCEPT !.ingredients = i] : i \in IdLists}
    \cup {[NoParams EXCEPT !.tags = Some(t), !.ingredients = Some(i)] :
             t \in {<<"1">>, <<"1", " 2">>}, i \in {<<"1">>, <<"1", " 2">>}}
AttrParams ==
    {[NoParams EXCEPT !.assigned_only = a] :
        a \in {Absent, Some("0"), Some("1"), Some("2"), Some("x")}}

(***************************************************************************)
(* The handlers.                                                           *)
(***************************************************************************)
\* request.user of a request that carries no credential
AnonymousUser == "AnonymousUser"
\* the token rows: key -> user
Tokens == [k \in {"token1", "token2"} |-> IF k = "token1" THEN "u1" ELSE "u2"]
\* Authorization headers: none, the token of a user, a token that is no row
Credentials == {Absent, Some("token1"), Some("token2"), Some("bogus")}

\* TokenAuthentication.authenticate: without a header the request stays
\* anonymous; a key that is no token row raises AuthenticationFailed
authenticate(cred) ==
    IF cred = Absent THEN [failed |-> FALSE, user |-> AnonymousUser]
    ELSE IF The(cred) \in DOMAIN Tokens
    THEN [failed |-> FALSE, user |-> Tokens[The(cred)]]
    ELSE [failed |-> TRUE, user |-> AnonymousUser]

\* the credentials that authenticate as user
CredentialsOf(user) ==
    {c \in Credentials : ~authenticate(c).failed /\ authenticate(c).user = user}

\* the response of a handler that ran for request.user = user is recorded
\* and the store becomes db; the blob store is not touched
Respond(op, user, pk, params, payload, status, data, db) ==
    /\ credential' \in CredentialsOf(user)
    /\ UNCHANGED <<blobs, nextBlobId, inflight, command, database>>
    /\ db.nextRecipeId <= MaxRecipes + 1
    /\ db.nextTagId <= MaxTags + 1
    /\ db.nextIngredientId <= MaxIngredients + 1
    /\ nreq' = nreq + 1
    /\ last' = [op |-> op, user |-> user, pk |-> pk, params |-> params,
                payload |-> payload, status |-> status, data |-> data]
    /\ recipes' = db.recipes
    /\ tags' = db.tags
    /\ ingredients' = db.ingredients
    /\ nextRecipeId' = db.nextRecipeId
    /\ nextTagId' = db.nextTagId
    /\ nextIngredientId' = db.nextIngredientId

\* GET /recipes/ : ListModelMixin.list over get_queryset
RecipeList(user, params) ==
    /\ nreq < MaxRequests
    /\ LET q == get_queryset(DB, user, params)
       IN  Respond("recipe_list", user, 0, params, NoPayload,
                   IF q.ok THEN HTTP_200_OK ELSE HTTP_500_INTERNAL_SERVER_ERROR,
                   q.rows, DB)

\* POST /recipes/ : CreateModelMixin.create, perform_create, serializer.create
RecipeCreate(user, payload) ==
    /\ nreq < MaxRequests
    /\ IF ~is_valid(payload, FALSE)
       THEN Respond("recipe_create", user, 0, NoParams, payload,
                    HTTP_400_BAD_REQUEST, <<>>, DB)
       ELSE LET r == create(DB, user, payload)
            IN  Respond("recipe_create", user, nextRecipeId, NoParams, payload,
                        IF r.ok THEN HTTP_201_CREATED
                        ELSE HTTP_500_INTERNAL_SERVER_ERROR,
                        IF r.ok THEN <<nextRecipeId>> ELSE <<>>, r.db)

\* GET /recipes/{pk}/ : RetrieveModelMixin.retrieve
RecipeRetrieve(user, pk) ==
    /\ nreq < MaxRequests
    /\ IF ~get_object(DB, user, pk)
       THEN Respond("recipe_retrieve", user, pk, NoParams, NoPayload,
                    HTTP_404_NOT_FOUND, <<>>, DB)
       ELSE Respond("recipe_retrieve", user, pk, NoParams, NoPayload,
                    HTTP_200_OK, <<pk>>, DB)

\* PUT and PATCH /recipes/{pk}/ : UpdateModelMixin.update, serializer.update
RecipeUpdate(user, pk, payload, partial) ==
    /\ nreq < MaxRequests
    /\ LET op == IF partial THEN "recipe_partial_update" ELSE "recipe_update"
       IN  IF ~get_object(DB, user, pk)
           THEN Respond(op, user, pk, NoParams, NoPayload, HTTP_404_NOT_FOUND,
                        <<>>, DB)
           ELSE IF ~is_valid(payload, partial)
           THEN Respond(op, user, pk, NoParams, payload, HTTP_400_BAD_REQUEST,
                        <<>>, DB)
           ELSE LET r == update(DB, pk, user, payload)
                IN  Respond(op, user, pk, NoParams, payload,
                            IF r.ok THEN HTTP_200_OK
                            ELSE HTTP_500_INTERNAL_SERVER_ERROR,
                            IF r.ok THEN <<pk>> ELSE <<>>, r.db)

\* DELETE /recipes/{pk}/ : DestroyModelMixin.destroy
RecipeDestroy(user, pk) ==
    /\ nreq < MaxRequests
    /\ IF ~get_object(DB, user, pk)
       THEN Respond("recipe_destroy", user, pk, NoParams, NoPayload,
                    HTTP_404_NOT_FOUND, <<>>, DB)
       ELSE Respond("recipe_destroy", user, pk, NoParams, NoPayload,
                    HTTP_204_NO_CONTENT, <<>>,
                    [DB EXCEPT !.recipes = Remove(@, pk)])

\* Tag and Ingredient rows carry no uniqueness constraint on (user, name)
UniqueNames == FALSE

\* is_valid() of TagSerializer and IngredientSerializer on row pk: a full
\* update needs the name; a uniqueness validator exists only for a unique
\* field
attr_is_valid(rows, pk, payload, partial) ==
    /\ partial \/ payload.name # Absent
    /\ (UniqueNames /\ payload.name # Absent)
          => Matching(rows, rows[pk].user, The(payload.name)) \subseteq {pk}

\* GET /tags/ : ListModelMixin.list over BaseRecipeArrtViewSet.get_queryset
TagList(user, params) ==
    /\ nreq < MaxRequests
    /\ LET q == attr_get_queryset(tags, recipes, "tags", user, params)
       IN  \E data \in q.results :
               Respond("tag_list", user, 0, params, NoPayload,
                       IF q.ok THEN HTTP_200_OK
                       ELSE HTTP_500_INTERNAL_SERVER_ERROR, data, DB)

\* GET /tags/{pk}/ : the viewset has no retrieve action
TagRetrieve(user, pk) ==
    /\ nreq < MaxRequests
    /\ Respond("tag_retrieve", user, pk, NoParams, NoPayload,
               HTTP_405_METHOD_NOT_ALLOWED, <<>>, DB)

\* PUT and PATCH /tags/{pk}/ : UpdateModelMixin.update with TagSerializer
TagUpdate(user, pk, payload, partial) ==
    /\ nreq < MaxRequests
    /\ LET op == IF partial THEN "tag_partial_update" ELSE "tag_update"
       IN  IF ~attr_get_object(tags, recipes, "tags", user, pk)
           THEN Respond(op, user, pk, NoParams, NoPayload, HTTP_404_NOT_FOUND,
                        <<>>, DB)
           ELSE IF ~attr_is_valid(tags, pk, payload, partial)
           THEN Respond(op, user, pk, NoParams, payload, HTTP_400_BAD_REQUEST,
                        <<>>, DB)
           ELSE Respond(op, user, pk, NoParams, payload, HTTP_200_OK, <<pk>>,
                        IF payload.name = Absent THEN DB
                        ELSE [DB EXCEPT !.tags[pk].name = The(payload.name)])

\* DELETE /tags/{pk}/ : DestroyModelMixin.destroy
TagDestroy(user, pk) ==
    /\ nreq < MaxRequests
    /\ IF ~attr_get_object(tags, recipes, "tags", user, pk)
       THEN Respond("tag_destroy", user, pk, NoParams, NoPayload,
                    HTTP_404_NOT_FOUND, <<>>, DB)
       ELSE Respond("tag_destroy", user, pk, NoParams, NoPayload,
                    HTTP_204_NO_CONTENT, <<>>,
                    [DB EXCEPT !.tags = Remove(@, pk),
                               !.recipes = Unlink(@, "tags", pk)])

\* GET /ingredients/
IngredientList(user, params) ==
    /\ nreq < MaxRequests
    /\ LET q == attr_get_queryset(ingredients, recipes, "ingredients", user, params)
       IN  \E data \in q.results :
               Respond("ingredient_list", user, 0, params, NoPayload,
                       IF q.ok THEN HTTP_200_OK
                       ELSE HTTP_500_INTERNAL_SERVER_ERROR, data, DB)

\* GET /ingredients/{pk}/ : the viewset has no retrieve action
IngredientRetrieve(user, pk) ==
    /\ nreq < MaxRequests
    /\ Respond("ingredient_retrieve", user, pk, NoParams, NoPayload,
               HTTP_405_METHOD_NOT_ALLOWED, <<>>, DB)

\* PUT and PATCH /ingredients/{pk}/
IngredientUpdate(user, pk, payload, partial) ==
    /\ nreq < MaxRequests
    /\ LET op == IF partial THEN "ingredient_partial_update"
                 ELSE "ingredient_update"
       IN  IF ~attr_get_object(ingredients, recipes, "ingredients", user, pk)
           THEN Respond(op, user, pk, NoParams, NoPayload, HTTP_404_NOT_FOUND,
                        <<>>, DB)
           ELSE IF ~attr_is_valid(ingredients, pk, payload, partial)
           THEN Respond(op, user, pk, NoParams, payload, HTTP_400_BAD_REQUEST,
                        <<>>, DB)
           ELSE Respond(op, user, pk, NoParams, payload, HTTP_200_OK, <<pk>>,
                        IF payload.name = Absent THEN DB
                        ELSE [DB EXCEPT !.ingredients[pk].name = The(payload.name)])

\* DELETE /ingredients/{pk}/
IngredientDestroy(user, pk) ==
    /\ nreq < MaxRequests
    /\ IF ~attr_get_object(ingredients, recipes, "ingredients", user, pk)
       THEN Respond("ingredient_destroy", user, pk, NoParams, NoPayload,
                    HTTP_404_NOT_FOUND, <<>>, DB)
       ELSE Respond("ingredient_destroy", user, pk, NoParams, NoPayload,
                    HTTP_204_NO_CONTENT, <<>>,
                    [DB EXCEPT !.ingredients = Remove(@, pk),
                               !.recipes = Unlink(@, "ingredients", pk)])

Next ==
    \/ \E u \in Users, q \in RecipeParams : RecipeList(u, q)
    \/ \E u \in Users, p \in RecipePayloads : RecipeCreate(u, p)
    \/ \E u \in Users, pk \in 1..MaxRecipes : RecipeRetrieve(u, pk)
    \/ \E u \in Users, pk \in 1..MaxRecipes, p \in RecipePayloads,
          partial \in BOOLEAN : RecipeUpdate(u, pk, p, partial)
    \/ \E u \in Users, pk \in 1..MaxRecipes : RecipeDestroy(u, pk)
    \/ \E u \in Users, q \in AttrParams : TagList(u, q)
    \/ \E u \in Users, pk \in 1..MaxTags : TagRetrieve(u, pk)
    \/ \E u \in Users, pk \in 1..MaxTags, p \in AttrPayloads(TagNames),
          partial \in BOOLEAN : TagUpdate(u, pk, p, partial)
    \/ \E u \in Users, pk \in 1..MaxTags : TagDestroy(u, pk)
    \/ \E u \in Users, q \in AttrParams : IngredientList(u, q)
    \/ \E u \in Users, pk \in 1..MaxIngredients : IngredientRetrieve(u, pk)
    \/ \E u \in Users, pk \in 1..MaxIngredients,
          p \in AttrPayloads(IngredientNames), partial \in BOOLEAN :
          IngredientUpdate(u, pk, p, partial)
    \/ \E u \in Users, pk \in 1..MaxIngredients : IngredientDestroy(u, pk)

Spec == Init /\ [][Next]_vars

(***************************************************************************)
(* Properties.                                                             *)
(***************************************************************************)
RecipeListed == last.op = "recipe_list" /\ last.status = HTTP_200_OK
TagListed == last.op = "tag_list" /\ last.status = HTTP_200_OK
IngredientListed == last.op = "ingredient_list" /\ last.status = HTTP_200_OK

\* C1: a list response holds only rows the caller owns, whatever the filter
\* parameters, and the unfiltered recipe list holds every recipe of the
\* caller.
C1_ListOnlyOwnRows ==
    /\ RecipeListed =>
          /\ \A i \in 1..Len(last.data) :
                /\ last.data[i] \in DOMAIN recipes
                /\ recipes[last.data[i]].user = last.user
          /\ last.params = NoParams =>
                \A r \in DOMAIN recipes :
                    recipes[r].user = last.user => r \in Elems(last.data)
    /\ TagListed =>
          \A i \in 1..Len(last.data) :
              /\ last.data[i] \in DOMAIN tags
              /\ tags[last.data[i]].user = last.user
    /\ IngredientListed =>
          \A i \in 1..Len(last.data) :
              /\ last.data[i] \in DOMAIN ingredients
              /\ ingredients[last.data[i]].user = last.user

\* a filtered recipe list that returned a row while another user's recipe is
\* linked to a tag id of the filter
C1_Witness ==
    /\ RecipeListed
    /\ Truthy(last.params.tags)
    /\ Len(last.data) > 0
    /\ \E r \in DOMAIN recipes :
          /\ recipes[r].user # last.user
          /\ DOMAIN recipes[r].tags
                 \cap params_to_ints(The(last.params.tags)).ids # {}

\* the store of the three tables is left as it was
StoreUnchanged == UNCHANGED store

RecipeDetailOps ==
    {"recipe_retrieve", "recipe_update", "recipe_partial_update",
     "recipe_destroy"}
TagWriteOps == {"tag_update", "tag_partial_update", "tag_destroy"}
IngredientWriteOps ==
    {"ingredient_update", "ingredient_partial_update", "ingredient_destroy"}

\* the request just handled addressed an existing row of another user
ForeignRow(ops, table) ==
    /\ last'.op \in ops
    /\ last'.pk \in DOMAIN table
    /\ table[last'.pk].user # last'.user
\* the request just handled addressed an id that is no row
MissingRow(ops, table) == last'.op \in ops /\ last'.pk \notin DOMAIN table

NotFoundNoChange ==
    last'.status = HTTP_404_NOT_FOUND /\ last'.data = <<>> /\ StoreUnchanged

\* C2 as stated: every detail request, retrieve included, addressed to a
\* recipe, tag or ingredient of another user ends not-found and changes
\* nothing.
C2_Original ==
    [][(\/ ForeignRow(RecipeDetailOps, recipes)
        \/ ForeignRow(TagWriteOps \cup {"tag_retrieve"}, tags)
        \/ ForeignRow(IngredientWriteOps \cup {"ingredient_retrieve"},
                      ingredients))
       => NotFoundNoChange]_vars

\* C2 (amended): a retrieve, update, partial update or delete of another
\* user's recipe, and an update, partial update or delete of another user's
\* tag or ingredient, ends 404 as for an id that is no row, and changes
\* nothing; a retrieve of a tag or an ingredient ends 405 whatever the id, and
\* changes nothing.
C2_ForeignRowNotFound ==
    [][/\ (\/ ForeignRow(RecipeDetailOps, recipes)
           \/ ForeignRow(TagWriteOps, tags)
           \/ ForeignRow(IngredientWriteOps, ingredients)
           \/ MissingRow(RecipeDetailOps, recipes)
           \/ MissingRow(TagWriteOps, tags)
           \/ MissingRow(IngredientWriteOps, ingredients))
          => NotFoundNoChange
       /\ last'.op \in {"tag_retrieve", "ingredient_retrieve"}
          => /\ last'.status = HTTP_405_METHOD_NOT_ALLOWED
             /\ last'.data = <<>>
             /\ StoreUnchanged]_vars

\* a delete of another user's recipe, which has a tag linked, ended 404
C2_Witness ==
    /\ last.op = "recipe_destroy"
    /\ last.status = HTTP_404_NOT_FOUND
    /\ last.pk \in DOMAIN recipes
    /\ recipes[last.pk].user # last.user
    /\ DOMAIN recipes[last.pk].tags # {}

\* C3: a partial update of a recipe leaves the tag links (and the Tag table)
\* as they were when its payload has no tags key, the ingredient links (and
\* the Ingredient table) when it has no ingredients key, every scalar field
\* the payload does not name, the owner, and every other recipe.
C3_PartialUpdateFrame ==
    [][(last'.op = "recipe_partial_update" /\ last'.pk \in DOMAIN recipes)
       => /\ DOMAIN recipes' = DOMAIN recipes
          /\ \A r \in DOMAIN recipes \ {last'.pk} : recipes'[r] = recipes[r]
          /\ recipes'[last'.pk].user = recipes[last'.pk].user
          /\ last'.payload.tags = Absent
                => /\ recipes'[last'.pk].tags = recipes[last'.pk].tags
                   /\ tags' = tags
          /\ last'.payload.ingredients = Absent
                => /\ recipes'[last'.pk].ingredients
                          = recipes[last'.pk].ingredients
                   /\ ingredients' = ingredients
          /\ \A f \in ScalarFields \ DOMAIN last'.payload.scalars :
                recipes'[last'.pk].scalars[f] = recipes[last'.pk].scalars[f]
      ]_vars

\* a partial update that named the title alone succeeded on a recipe that has
\* a tag and an ingredient linked and a price that differs from the new title
C3_Witness ==
    /\ last.op = "recipe_partial_update"
    /\ last.status = HTTP_200_OK
    /\ last.payload.tags = Absent
    /\ last.payload.ingredients = Absent
    /\ DOMAIN last.payload.scalars = {"title"}
    /\ recipes[last.pk].scalars["title"] = last.payload.scalars["title"]
    /\ recipes[last.pk].scalars["price"] # last.payload.scalars["title"]
    /\ DOMAIN recipes[last.pk].tags # {}
    /\ DOMAIN recipes[last.pk].ingredients # {}

\* the request just handled was a create or an update of a recipe that ran
\* to its end
RecipeWritten ==
    \/ last.op = "recipe_create" /\ last.status = HTTP_201_CREATED
    \/ last.op \in {"recipe_update", "recipe_partial_update"}
          /\ last.status = HTTP_200_OK
RecipeUpdated ==
    last.op \in {"recipe_update", "recipe_partial_update"}
        /\ last.status = HTTP_200_OK

\* the rows of table that owner owns under a name of list
OwnedNamed(table, owner, list) ==
    {t \in DOMAIN table :
        table[t].user = owner /\ table[t].name \in Elems(list)}

\* C4: after a successful update whose payload has the tags key with list L,
\* the recipe is linked to exactly the owner's tags whose names occur in L:
\* a tag linked before whose name is not in L is unlinked, and for L = <<>>
\* no tag is linked.  The same for ingredients.
C4_UpdateReplacesLinks ==
    [][RecipeUpdated'
       => /\ last'.payload.tags # Absent
             => LET L == The(last'.payload.tags)
                    linked == DOMAIN recipes'[last'.pk].tags
                IN  /\ linked = OwnedNamed(tags', recipes'[last'.pk].user, L)
                    /\ \A t \in DOMAIN recipes[last'.pk].tags :
                          tags[t].name \notin Elems(L) => t \notin linked
                    /\ L = <<>> => linked = {}
          /\ last'.payload.ingredients # Absent
             => LET L == The(last'.payload.ingredients)
                    linked == DOMAIN recipes'[last'.pk].ingredients
                IN  /\ linked = OwnedNamed(ingredients',
                                           recipes'[last'.pk].user, L)
                    /\ \A t \in DOMAIN recipes[last'.pk].ingredients :
                          ingredients[t].name \notin Elems(L)
                              => t \notin linked
                    /\ L = <<>> => linked = {}
      ]_vars

\* an update with a one-name tags list succeeded and left the recipe linked
\* to one tag, while its owner has a tag of another name that is not linked
C4_Witness ==
    /\ RecipeUpdated
    /\ last.payload.tags # Absent
    /\ Len(The(last.payload.tags)) = 1
    /\ Cardinality(DOMAIN recipes[last.pk].tags) = 1
    /\ \E t \in DOMAIN tags :
          /\ tags[t].user = last.user
          /\ tags[t].name \notin Elems(The(last.payload.tags))
          /\ t \notin DOMAIN recipes[last.pk].tags

\* the names of list that owner has no row for in table
NewNames(table, owner, list) ==
    {n \in Elems(list) : Matching(table, owner, n) = {}}

\* the reconciliation of one collection created a row for each name the
\* caller did not own, and no other row, and resolved the other names to the
\* rows the caller had
Reconciled(before, after, linked, caller, list) ==
    LET created == DOMAIN after \ DOMAIN before
    IN  /\ DOMAIN before \subseteq DOMAIN after
        /\ \A t \in DOMAIN before : after[t] = before[t]
        /\ Cardinality(created) = Cardinality(NewNames(before, caller, list))
        /\ \A t \in created :
              /\ after[t].user = caller
              /\ after[t].name \in NewNames(before, caller, list)
        /\ \A n \in Elems(list) \ NewNames(before, caller, list) :
              /\ Matching(after, caller, n) = Matching(before, caller, n)
              /\ Matching(before, caller, n) \subseteq linked

\* the request just handled was a create or an update of a recipe that
\* reached the serializer's create or update, whatever its end
RecipeSaveCalled ==
    \/ last.op = "recipe_create"
          /\ last.status \in {HTTP_201_CREATED, HTTP_500_INTERNAL_SERVER_ERROR}
    \/ last.op \in {"recipe_update", "recipe_partial_update"}
          /\ last.status \in {HTTP_200_OK, HTTP_500_INTERNAL_SERVER_ERROR}

\* C5: a create or update of a recipe with a tags list resolves each name the
\* caller owns a tag of to that row and creates one Tag row of the caller for
\* each other distinct name: the Tag table grows by the number of distinct
\* names the caller did not own.  The same for ingredients.
C5_GetOrCreate ==
    [][RecipeSaveCalled'
       => /\ last'.payload.tags # Absent
             => Reconciled(tags, tags', DOMAIN recipes'[last'.pk].tags,
                           last'.user, The(last'.payload.tags))
          /\ last'.payload.ingredients # Absent
             => Reconciled(ingredients, ingredients',
                           DOMAIN recipes'[last'.pk].ingredients,
                           last'.user, The(last'.payload.ingredients))
      ]_vars

\* C5 for the requests that end 200 or 201 (this much holds)
C5_OnSuccess ==
    [][RecipeWritten'
       => /\ last'.payload.tags # Absent
             => Reconciled(tags, tags', DOMAIN recipes'[last'.pk].tags,
                           last'.user, The(last'.payload.tags))
          /\ last'.payload.ingredients # Absent
             => Reconciled(ingredients, ingredients',
                           DOMAIN recipes'[last'.pk].ingredients,
                           last'.user, The(last'.payload.ingredients))
      ]_vars

\* the second recipe of a user was created with the list a, b: tag 1, named
\* a, is linked to both recipes and tag 2, named b, to the second alone
C5_Witness ==
    /\ last.op = "recipe_create"
    /\ last.status = HTTP_201_CREATED
    /\ last.pk = 2
    /\ last.payload.tags = Some(<<"a", "b">>)
    /\ DOMAIN recipes = {1, 2}
    /\ recipes[1].user = recipes[2].user
    /\ DOMAIN recipes[1].tags = {1}
    /\ DOMAIN recipes[2].tags = {1, 2}
    /\ tags[1].name = "a"
    /\ tags[2].name = "b"

\* some name occurs twice in list
Repeats(list) ==
    {list[i] : i \in {j \in 1..Len(list) :
                         \E k \in 1..Len(list) : k # j /\ list[k] = list[j]}}

\* the caller owns exactly one row of table under each name repeated in
\* list, and links holds exactly one link row to it
OneRowOneLink(table, links, caller, list) ==
    \A n \in Repeats(list) :
        /\ Cardinality(Matching(table, caller, n)) = 1
        /\ \A t \in Matching(table, caller, n) :
              t \in DOMAIN links /\ links[t] = 1

\* C6: after a create or update request with a name repeated in its tags
\* list, the caller owns exactly one Tag row of that name and the recipe has
\* exactly one link row to it.  The same for ingredients.
C6_RepeatedName ==
    RecipeSaveCalled
    => /\ last.payload.tags # Absent
          => OneRowOneLink(tags, recipes[last.pk].tags, last.user,
                           The(last.payload.tags))
       /\ last.payload.ingredients # Absent
          => OneRowOneLink(ingredients, recipes[last.pk].ingredients,
                           last.user, The(last.payload.ingredients))

\* C6 for the requests that end 200 or 201 (this much holds)
C6_OnSuccess ==
    RecipeWritten
    => /\ last.payload.tags # Absent
          => OneRowOneLink(tags, recipes[last.pk].tags, last.user,
                           The(last.payload.tags))
       /\ last.payload.ingredients # Absent
          => OneRowOneLink(ingredients, recipes[last.pk].ingredients,
                           last.user, The(last.payload.ingredients))

\* a create with the tags list a, a succeeded
C6_Witness ==
    /\ last.op = "recipe_create"
    /\ last.status = HTTP_201_CREATED
    /\ last.payload.tags = Some(<<"a", "a">>)
    /\ Cardinality(DOMAIN recipes[last.pk].tags) = 1

\* C7: the owner of a recipe is the caller of the create request that made
\* it, whatever user key the payload carries, and no request changes the
\* owner of a recipe.
C7_OwnerFixed ==
    [][/\ \A r \in DOMAIN recipes' \ DOMAIN recipes :
             /\ last'.op = "recipe_create"
             /\ r = last'.pk
             /\ recipes'[r].user = last'.user
       /\ \A r \in DOMAIN recipes' \cap DOMAIN recipes :
             recipes'[r].user = recipes[r].user
      ]_vars

\* an update whose payload names another user succeeded, and the recipe is
\* still the caller's
C7_Witness ==
    /\ RecipeUpdated
    /\ last.payload.user # Absent
    /\ The(last.payload.user) # last.user
    /\ recipes[last.pk].user = last.user

\* C8: every tag and every ingredient linked to a recipe is a row of the
\* recipe's owner.
C8_LinksWithinOwner ==
    \A r \in DOMAIN recipes :
        /\ \A t \in DOMAIN recipes[r].tags :
              t \in DOMAIN tags /\ tags[t].user = recipes[r].user
        /\ \A i \in DOMAIN recipes[r].ingredients :
              /\ i \in DOMAIN ingredients
              /\ ingredients[i].user = recipes[r].user

\* two users each have a recipe linked to a tag of their own, the two tags
\* of one name
C8_Witness ==
    \E r1, r2 \in DOMAIN recipes :
        /\ recipes[r1].user # recipes[r2].user
        /\ \E t1 \in DOMAIN recipes[r1].tags, t2 \in DOMAIN recipes[r2].tags :
              t1 # t2 /\ tags[t1].name = tags[t2].name

\* the ids of a query parameter that is given and not empty
RequestedIds(param) == {IntOf(s) : s \in Elems(The(param))}

\* the recipes of the caller that the filters of the last request select
Selected ==
    {r \in DOMAIN recipes :
        /\ recipes[r].user = last.user
        /\ Truthy(last.params.tags)
              => DOMAIN recipes[r].tags
                     \cap RequestedIds(last.params.tags) # {}
        /\ Truthy(last.params.ingredients)
              => DOMAIN recipes[r].ingredients
                     \cap RequestedIds(last.params.ingredients) # {}}

\* C9: the recipe list for tags ids T and/or ingredients ids I holds exactly
\* the caller's recipes linked to a tag of T (when given) and to an ingredient
\* of I (when given), each once, in descending id order.
C9_FilteredList ==
    RecipeListed
    => /\ Elems(last.data) = Selected
       /\ Len(last.data) = Cardinality(Selected)
       /\ \A i, j \in 1..Len(last.data) : i < j => last.data[i] > last.data[j]

\* a list filtered by tags returned two recipes, one of them linked to two
\* of the requested tags
C9_Witness ==
    /\ RecipeListed
    /\ Truthy(last.params.tags)
    /\ Len(last.data) = 2
    /\ \E r \in Elems(last.data) :
          Cardinality(DOMAIN recipes[r].tags
                          \cap RequestedIds(last.params.tags)) = 2

\* the rows of table the last list request is to return: the caller's, and
\* with a nonzero assigned_only those linked from a recipe through field
Expected(table, field) ==
    LET a == last.params.assigned_only
        only == a # Absent /\ IntOf(The(a)) # 0
    IN  {t \in DOMAIN table :
            /\ table[t].user = last.user
            /\ only => \E r \in DOMAIN recipes : t \in DOMAIN recipes[r][field]}

\* data holds the rows of Expected, each once, by descending name
ListedByName(table, field) ==
    /\ Elems(last.data) = Expected(table, field)
    /\ Len(last.data) = Cardinality(Expected(table, field))
    /\ \A i, j \in 1..Len(last.data) :
          i < j => NameRank(table[last.data[i]].name)
                       >= NameRank(table[last.data[j]].name)

\* C10: a tag list with a nonzero assigned_only holds exactly the caller's
\* tags linked to a recipe, each once, by descending name; without it, or
\* with 0, all the caller's tags by descending name.  The same for
\* ingredients.
C10_AssignedOnly ==
    /\ TagListed => ListedByName(tags, "tags")
    /\ IngredientListed => ListedByName(ingredients, "ingredients")

\* a tag list with assigned_only=1 returned two tags, one of them linked to
\* two recipes
C10_Witness ==
    /\ TagListed
    /\ last.params.assigned_only = Some("1")
    /\ Len(last.data) = 2
    /\ \E t \in Elems(last.data) :
          Cardinality({r \in DOMAIN recipes : t \in DOMAIN recipes[r].tags}) = 2

(***************************************************************************)
(* The image attachment endpoint: POST /recipes/{pk}/upload-image/.        *)
(***************************************************************************)
\* the uploaded files that decode as an image, and one that does not
Images == {"jpeg1", "jpeg2"}
Files == Images \cup {"notanimage"}
\* multipart bodies of an upload: no image part, or one file
ImagePayloads ==
    {[NoPayload EXCEPT !.image = i] : i \in {Absent} \cup {Some(f) : f \in Files}}

\* a serializer that takes any body for an image
image_is_valid_any(payload) == TRUE

\* RecipeImageSerializer.is_valid(): the image is required and must be a
\* file that decodes as an image
image_is_valid(payload) ==
    payload.image # Absent /\ The(payload.image) \in Images

\* the blob store deletes the blob a replaced reference addressed
Discard(bl, ref) == IF ref = Absent THEN bl ELSE Remove(bl, The(ref))
\* the blob store stores content for recipe under a generated path
StoreBlob(bl, path, recipe, content) ==
    Insert(bl, path, [recipe |-> recipe, content |-> content])

\* a save that leaves an image the recipe already has in place
image_save_keep_existing(db, bl, path, pk, payload) ==
    IF payload.image = Absent \/ db.recipes[pk].image # Absent
    THEN [db |-> db, blobs |-> bl, nextBlobId |-> path]
    ELSE [db |-> [db EXCEPT !.recipes[pk].image = Some(path)],
          blobs |-> StoreBlob(bl, path, pk, The(payload.image)),
          nextBlobId |-> path + 1]

\* serializer.save() of upload_image: the validated image is set on the
\* recipe and the recipe saved; the file is stored under a newly generated
\* path, which becomes the recipe's image reference
image_save(db, bl, path, pk, payload) ==
    IF payload.image = Absent
    THEN [db |-> db, blobs |-> bl, nextBlobId |-> path]
    ELSE [db |-> [db EXCEPT !.recipes[pk].image = Some(path)],
          blobs |-> StoreBlob(Discard(bl, db.recipes[pk].image), path, pk,
                              The(payload.image)),
          nextBlobId |-> path + 1]

\* RecipeViewSet.upload_image: get_object, is_valid, save
upload_image(db, bl, path, user, pk, payload) ==
    IF ~get_object(db, user, pk)
    THEN [status |-> HTTP_404_NOT_FOUND, data |-> <<>>, payload |-> NoPayload,
          to |-> [db |-> db, blobs |-> bl, nextBlobId |-> path]]
    ELSE IF image_is_valid(payload)
    THEN [status |-> HTTP_200_OK, data |-> <<pk>>, payload |-> payload,
          to |-> image_save(db, bl, path, pk, payload)]
    ELSE [status |-> HTTP_400_BAD_REQUEST, data |-> <<>>, payload |-> payload,
          to |-> [db |-> db, blobs |-> bl, nextBlobId |-> path]]

\* POST /recipes/{pk}/upload-image/
UploadImage(user, pk, payload) ==
    /\ nreq < MaxRequests
    /\ LET r == upload_image(DB, blobs, nextBlobId, user, pk, payload)
       IN  /\ nreq' = nreq + 1
           /\ credential' \in CredentialsOf(user)
           /\ last' = [op |-> "upload_image", user |-> user, pk |-> pk,
                       params |-> NoParams, payload |-> r.payload,
                       status |-> r.status, data |-> r.data]
           /\ recipes' = r.to.db.recipes
           /\ blobs' = r.to.blobs
           /\ nextBlobId' = r.to.nextBlobId
           /\ UNCHANGED <<tags, ingredients, nextRecipeId, nextTagId,
                          nextIngredientId, inflight, command, database>>

\* recipes are created and updated, and images uploaded to them
NextImage ==
    \/ \E u \in Users, f \in Basics : RecipeCreate(u, [NoPayload EXCEPT !.scalars = f])
    \/ \E u \in Users, pk \in 1..MaxRecipes, f \in Basics, partial \in BOOLEAN :
          RecipeUpdate(u, pk, [NoPayload EXCEPT !.scalars = f], partial)
    \/ \E u \in Users, pk \in 1..MaxRecipes, p \in ImagePayloads :
          UploadImage(u, pk, p)

SpecImage == Init /\ [][NextImage]_vars

\* the upload of the step just taken: an upload-image request of the owner
\* of recipe last'.pk
UploadToOwn ==
    /\ nreq' # nreq
    /\ last'.op = "upload_image"
    /\ last'.pk \in DOMAIN recipes
    /\ recipes[last'.pk].user = last'.user

BlobsOf(bl, r) == {p \in DOMAIN bl : bl[p].recipe = r}

has_permission_allow_any(user) == TRUE

\* permission_classes = [IsAuthenticated]
has_permission(user) == user # AnonymousUser

\* the actions of the three viewsets
EndpointOps ==
    {"recipe_list", "recipe_create", "recipe_retrieve", "recipe_update",
     "recipe_partial_update", "recipe_destroy", "upload_image",
     "tag_list", "tag_retrieve", "tag_update", "tag_partial_update",
     "tag_destroy", "ingredient_list", "ingredient_retrieve",
     "ingredient_update", "ingredient_partial_update", "ingredient_destroy"}

\* the bodies and parameters sent in the runs with credentials
AuthRecipePayloads ==
    {[NoPayload EXCEPT !.scalars = f, !.tags = Some(<<"a">>),
                       !.ingredients = Some(<<"x">>)] : f \in Basics}
AuthParams == {NoParams, [NoParams EXCEPT !.tags = Some(<<"1">>)],
               [NoParams EXCEPT !.assigned_only = Some("1")]}

\* the handler of the action, run for request.user = user
Handle(user) ==
    \/ \E q \in AuthParams : RecipeList(user, q)
    \/ \E p \in AuthRecipePayloads : RecipeCreate(user, p)
    \/ \E pk \in 1..MaxRecipes : RecipeRetrieve(user, pk)
    \/ \E pk \in 1..MaxRecipes, p \in AuthRecipePayloads, partial \in BOOLEAN :
          RecipeUpdate(user, pk, p, partial)
    \/ \E pk \in 1..MaxRecipes : RecipeDestroy(user, pk)
    \/ \E pk \in 1..MaxRecipes, p \in ImagePayloads : UploadImage(user, pk, p)
    \/ \E q \in AuthParams : TagList(user, q)
    \/ \E pk \in 1..MaxTags : TagRetrieve(user, pk)
    \/ \E pk \in 1..MaxTags, partial \in BOOLEAN :
          TagUpdate(user, pk, [NoPayload EXCEPT !.name = Some("b")], partial)
    \/ \E pk \in 1..MaxTags : TagDestroy(user, pk)
    \/ \E q \in AuthParams : IngredientList(user, q)
    \/ \E pk \in 1..MaxIngredients : IngredientRetrieve(user, pk)
    \/ \E pk \in 1..MaxIngredients, partial \in BOOLEAN :
          IngredientUpdate(user, pk, [NoPayload EXCEPT !.name = Some("y")],
                           partial)
    \/ \E pk \in 1..MaxIngredients : IngredientDestroy(user, pk)

\* NotAuthenticated / AuthenticationFailed raised by initial(): the response
\* is 401 with no rows, and no handler runs
NotAuthenticated(op, pk) ==
    /\ nreq < MaxRequests
    /\ nreq' = nreq + 1
    /\ last' = [op |-> op, user |-> AnonymousUser, pk |-> pk,
                params |-> NoParams, payload |-> NoPayload,
                status |-> HTTP_401_UNAUTHORIZED, data |-> <<>>]
    /\ UNCHANGED <<store, blobs, nextBlobId, inflight, command, database>>

\* APIView.dispatch of a request that carries cred
Dispatch(cred) ==
    /\ credential' = cred
    /\ LET a == authenticate(cred)
       IN  IF a.failed \/ ~has_permission(a.user)
           THEN \E op \in EndpointOps, pk \in 0..MaxRecipes :
                   NotAuthenticated(op, pk)
           ELSE Handle(a.user)

NextAuth == \E cred \in Credentials : Dispatch(cred)

SpecAuth == Init /\ [][NextAuth]_vars

MalformedEntries ==
    {"no_name", "null_name", "blank_name", "bool_name", "not_an_object"}
\* {"name": 1}: CharField takes a number as its decimal string
NumericEntries == {"number_1"}

\* a field that lets every entry through under the name written for it
entry_to_internal_value_any(entry) == [ok |-> TRUE, name |-> entry]

\* TagSerializer / IngredientSerializer .run_validation of one entry: the
\* validated name, or a validation error
entry_to_internal_value(entry) ==
    IF entry \in MalformedEntries THEN [ok |-> FALSE, name |-> entry]
    ELSE IF entry = "number_1" THEN [ok |-> TRUE, name |-> "1"]
    ELSE [ok |-> TRUE, name |-> entry]

\* ListSerializer.to_internal_value (many=True): every entry is validated;
\* one error fails the list
list_to_internal_value(list) ==
    IF list = Absent THEN [ok |-> TRUE, value |-> Absent]
    ELSE [ok |-> \A i \in 1..Len(The(list)) :
                     entry_to_internal_value(The(list)[i]).ok,
          value |-> Some([i \in 1..Len(The(list)) |->
                             entry_to_internal_value(The(list)[i]).name])]

\* RecipeSerializer.to_internal_value on the nested lists of a body: the
\* body with the validated lists
to_internal_value(raw) ==
    LET t == list_to_internal_value(raw.tags)
        g == list_to_internal_value(raw.ingredients)
    IN  [ok |-> t.ok /\ g.ok,
         payload |-> [raw EXCEPT !.tags = t.value, !.ingredients = g.value]]

\* POST /recipes/ with a body as sent: validation errors of the nested lists
\* are answered 400 before perform_create
RawRecipeCreate(user, raw) ==
    /\ nreq < MaxRequests
    /\ LET v == to_internal_value(raw)
       IN  IF ~v.ok
           THEN Respond("recipe_create", user, 0, NoParams, raw,
                        HTTP_400_BAD_REQUEST, <<>>, DB)
           ELSE RecipeCreate(user, v.payload)

\* PUT and PATCH /recipes/{pk}/ with a body as sent: get_object, then
\* validation, then perform_update
RawRecipeUpdate(user, pk, raw, partial) ==
    /\ nreq < MaxRequests
    /\ LET v == to_internal_value(raw)
       IN  IF get_object(DB, user, pk) /\ ~v.ok
           THEN Respond(IF partial THEN "recipe_partial_update"
                        ELSE "recipe_update",
                        user, pk, NoParams, raw, HTTP_400_BAD_REQUEST, <<>>, DB)
           ELSE RecipeUpdate(user, pk, v.payload, partial)

\* the lists sent: lists of names, and lists with one entry that is a
\* number or malformed, alone or beside a name
RawTagLists ==
    {<<>>, <<"a">>, <<"a", "b">>}
    \cup UNION {{<<m>>, <<"b", m>>, <<m, "b">>} :
                   m \in NumericEntries \cup MalformedEntries}
RawIngredientLists ==
    {<<"x">>, <<"number_1">>, <<"no_name">>, <<"x", "no_name">>}
RawPayloads ==
    {[NoPayload EXCEPT !.scalars = [f \in RequiredFields |-> "v1"],
                       !.tags = Some(l)] : l \in RawTagLists}
    \cup {[NoPayload EXCEPT !.scalars = [f \in {"title"} |-> "v2"],
                            !.ingredients = Some(l)] : l \in RawIngredientLists}

NextRaw ==
    \/ \E u \in Users, p \in RawPayloads : RawRecipeCreate(u, p)
    \/ \E u \in Users, pk \in 1..MaxRecipes, p \in RawPayloads,
          partial \in BOOLEAN : RawRecipeUpdate(u, pk, p, partial)

SpecRaw == Init /\ [][NextRaw]_vars

\* list, given in a body, holds an entry that is malformed
HasMalformed(list) ==
    list # Absent /\ Elems(The(list)) \cap MalformedEntries # {}

Unparseable(param) ==
    /\ param # Absent
    /\ The(param) # <<"">>
    /\ \E i \in 1..Len(The(param)) : The(param)[i] \notin IntTokens

\* C15: a recipe list request whose tags or ingredients parameter holds a
\* segment that is no integer is answered 400, with no recipes.
C15_UnparseableIdList ==
    (/\ last.op = "recipe_list"
     /\ Unparseable(last.params.tags) \/ Unparseable(last.params.ingredients))
        => last.status = HTTP_400_BAD_REQUEST /\ last.data = <<>>

\* rows of table that have one owner and one name
SameOwnerAndName(table) ==
    {pair \in (DOMAIN table) \X (DOMAIN table) :
        /\ pair[1] < pair[2]
        /\ table[pair[1]].user = table[pair[2]].user
        /\ table[pair[1]].name = table[pair[2]].name}

\* C17: an owner has at most one Tag row and at most one Ingredient row of
\* a name, after any sequence of requests handled one after another (recipe
\* create and update, tag and ingredient update and delete).
C17_OneRowPerName ==
    SameOwnerAndName(tags) = {} /\ SameOwnerAndName(ingredients) = {}

\* the step just taken is a recipe update that ended in an error after
\* get_object and validation
UpdateFailed ==
    /\ nreq' # nreq
    /\ last'.op \in {"recipe_update", "recipe_partial_update"}
    /\ last'.status \notin {HTTP_200_OK, HTTP_400_BAD_REQUEST,
                            HTTP_404_NOT_FOUND}

\* C19: a recipe update that ends in an error after validation leaves the
\* recipe's tag links, ingredient links and scalar fields as they were
\* before the request.
C19_UpdateAllOrNothing ==
    [][UpdateFailed => recipes'[last'.pk] = recipes[last'.pk]]_vars

(***************************************************************************)
(* Concurrent requests.  Each worker handles one request at a time, and    *)
(* the workers share the store.  A step of a worker is one ORM call of     *)
(* RecipeSerializer.create / update: the insert of the recipe, clear(),    *)
(* the lookup and the insert of get_or_create, add(), save().  Every call  *)
(* commits by itself; nothing in create or update opens a transaction or   *)
(* takes a lock.                                                           *)
(*   inflight[w]  pc        the call the worker makes next                 *)
(*                instance  the scalar fields of the recipe get_object     *)
(*                          loaded                                         *)
(*                phases    the collections still to reconcile             *)
(*                todo      the names of the current collection still to   *)
(*                          resolve                                        *)
(*                obj       the row get_or_create returned                 *)
(***************************************************************************)
ListOf(payload, field) ==
    IF payload[field] = Absent THEN <<>> ELSE The(payload[field])

\* the worker record at the start of the collection rec.phases begins with:
\* update clears it first, create goes straight to its names; after the
\* last collection update saves the instance and create returns
RECURSIVE Enter(_)
Enter(rec) ==
    IF rec.phases = <<>>
    THEN IF rec.op = "recipe_create"
         THEN [rec EXCEPT !.pc = "done", !.status = HTTP_201_CREATED]
         ELSE [rec EXCEPT !.pc = "save"]
    ELSE LET list == ListOf(rec.payload, Head(rec.phases))
         IN  IF rec.op # "recipe_create"
             THEN [rec EXCEPT !.pc = "clear", !.todo = list]
             ELSE IF list = <<>>
             THEN Enter([rec EXCEPT !.phases = Tail(@)])
             ELSE [rec EXCEPT !.pc = "get", !.todo = list]

\* a loop that returns after its first name
Advance_first_only(rec) ==
    Enter([rec EXCEPT !.phases = Tail(@), !.todo = <<>>, !.obj = 0])

\* the worker record once the current name is done with
Advance(rec) ==
    IF rec.todo # <<>> /\ Tail(rec.todo) # <<>>
    THEN [rec EXCEPT !.pc = "get", !.todo = Tail(@), !.obj = 0]
    ELSE Enter([rec EXCEPT !.phases = Tail(@), !.todo = <<>>, !.obj = 0])

\* the collections update reconciles: those the body carries
UpdatePhases(payload) ==
    (IF payload.tags = Absent THEN <<>> ELSE <<"tags">>)
        \o (IF payload.ingredients = Absent THEN <<>> ELSE <<"ingredients">>)

\* a step of worker w that changes only the store of recipes
StepOn(w, rec, newRecipes) ==
    /\ inflight' = [inflight EXCEPT ![w] = rec]
    /\ recipes' = newRecipes
    /\ UNCHANGED <<tags, ingredients, nextRecipeId, nextTagId,
                   nextIngredientId, last, nreq, credential, blobs,
                   nextBlobId, command, database>>

\* a request arrives at idle worker w: the view authenticated user; an
\* update calls get_object and is_valid, a create is_valid
Begin(w, op, user, pk, payload) ==
    /\ nreq < MaxRequests
    /\ inflight[w].pc = "idle"
    /\ nreq' = nreq + 1
    /\ LET rec == [IdleWorker EXCEPT !.op = op, !.user = user, !.pk = pk,
                                     !.payload = payload]
       IN  inflight' = [inflight EXCEPT ![w] =
               IF op = "recipe_create"
               THEN IF ~is_valid(payload, FALSE)
                    THEN [rec EXCEPT !.pc = "done",
                                     !.status = HTTP_400_BAD_REQUEST]
                    ELSE [rec EXCEPT !.pc = "insert"]
               ELSE IF ~get_object(DB, user, pk)
               THEN [rec EXCEPT !.pc = "done", !.payload = NoPayload,
                                !.status = HTTP_404_NOT_FOUND]
               ELSE IF ~is_valid(payload, op = "recipe_partial_update")
               THEN [rec EXCEPT !.pc = "done",
                                !.status = HTTP_400_BAD_REQUEST]
               ELSE Enter([rec EXCEPT !.instance = recipes[pk].scalars,
                                      !.phases = UpdatePhases(payload)])]
    /\ UNCHANGED <<store, last, credential, blobs, nextBlobId, command,
                   database>>

\* Recipe.objects.create(**validated_data) of create
InsertRecipe(w) ==
    /\ inflight[w].pc = "insert"
    /\ nextRecipeId <= MaxRecipes
    /\ inflight' = [inflight EXCEPT ![w] =
           Enter([@ EXCEPT !.pk = nextRecipeId,
                           !.phases = <<"tags", "ingredients">>])]
    /\ recipes' = Insert(recipes, nextRecipeId,
                         NewRecipe(inflight[w].user,
                                   inflight[w].payload.scalars))
    /\ nextRecipeId' = nextRecipeId + 1
    /\ UNCHANGED <<tags, ingredients, nextTagId, nextIngredientId, last,
                   nreq, credential, blobs, nextBlobId, command, database>>

\* instance.tags.clear() / instance.ingredients.clear() of update
Clear(w) ==
    LET rec == inflight[w]
        field == Head(rec.phases)
    IN  /\ rec.pc = "clear"
        /\ StepOn(w,
                  IF rec.todo = <<>>
                  THEN Enter([rec EXCEPT !.phases = Tail(@)])
                  ELSE [rec EXCEPT !.pc = "get"],
                  [recipes EXCEPT ![rec.pk][field] = M2MClear(@)])

\* the lookup of get_or_create(user=auth_user, name=...): one row is
\* returned, none leads to the insert, several raise MultipleObjectsReturned
Get(w) ==
    LET rec == inflight[w]
        rows == IF Head(rec.phases) = "tags" THEN tags ELSE ingredients
        found == Matching(rows, rec.user, Head(rec.todo))
    IN  /\ rec.pc = "get"
        /\ StepOn(w,
                  IF Cardinality(found) > 1
                  THEN [rec EXCEPT !.pc = "done",
                                   !.status = HTTP_500_INTERNAL_SERVER_ERROR]
                  ELSE IF found = {} THEN [rec EXCEPT !.pc = "create"]
                  ELSE [rec EXCEPT !.pc = "add", !.obj = The(found)],
                  recipes)

\* an insert that first looks whether the owner has a row of the name by now
CreateRow_if_absent(rows, id, user, name) ==
    IF Matching(rows, user, name) # {} THEN rows
    ELSE Insert(rows, id, [user |-> user, name |-> name])

\* the insert of get_or_create after a lookup that found nothing
CreateRow(rows, id, user, name) ==
    Insert(rows, id, [user |-> user, name |-> name])

\* get_or_create inserts the row its lookup did not find
Create(w) ==
    LET rec == inflight[w]
        name == Head(rec.todo)
    IN  /\ rec.pc = "create"
        /\ IF Head(rec.phases) = "tags"
           THEN /\ nextTagId <= MaxTags
                /\ tags' = CreateRow(tags, nextTagId, rec.user, name)
                /\ nextTagId' = nextTagId + 1
                /\ inflight' = [inflight EXCEPT ![w] =
                       [rec EXCEPT !.pc = "add", !.obj = nextTagId]]
                /\ UNCHANGED <<ingredients, nextIngredientId>>
           ELSE /\ nextIngredientId <= MaxIngredients
                /\ ingredients' = CreateRow(ingredients, nextIngredientId,
                                            rec.user, name)
                /\ nextIngredientId' = nextIngredientId + 1
                /\ inflight' = [inflight EXCEPT ![w] =
                       [rec EXCEPT !.pc = "add", !.obj = nextIngredientId]]
                /\ UNCHANGED <<tags, nextTagId>>
        /\ UNCHANGED <<recipes, nextRecipeId, last, nreq, credential, blobs,
                       nextBlobId, command, database>>

\* recipe.tags.add(tag_obj) / recipe.ingredients.add(ingredient_obj)
Add(w) ==
    LET rec == inflight[w]
        field == Head(rec.phases)
    IN  /\ rec.pc = "add"
        /\ StepOn(w, Advance(rec),
                  [recipes EXCEPT ![rec.pk][field] = M2MAdd(@, rec.obj)])

\* the setattr loop and instance.save() of update: every scalar column is
\* written from the instance get_object loaded, with the validated fields set
Save(w) ==
    LET rec == inflight[w]
    IN  /\ rec.pc = "save"
        /\ StepOn(w, [rec EXCEPT !.pc = "done", !.status = HTTP_200_OK],
                  [recipes EXCEPT ![rec.pk].scalars =
                      [f \in ScalarFields |->
                          IF f \in DOMAIN rec.payload.scalars
                          THEN rec.payload.scalars[f] ELSE rec.instance[f]]])

\* the response is sent and the worker is free again
Finish(w) ==
    LET rec == inflight[w]
    IN  /\ rec.pc = "done"
        /\ inflight' = [inflight EXCEPT ![w] = IdleWorker]
        /\ last' = [op |-> rec.op, user |-> rec.user, pk |-> rec.pk,
                    params |-> NoParams, payload |-> rec.payload,
                    status |-> rec.status,
                    data |-> IF rec.status \in {HTTP_200_OK, HTTP_201_CREATED}
                             THEN <<rec.pk>> ELSE <<>>]
        /\ credential' \in CredentialsOf(rec.user)
        /\ UNCHANGED <<store, nreq, blobs, nextBlobId, command, database>>

\* the bodies of the concurrent requests
RacePayloads ==
    {[NoPayload EXCEPT !.scalars = [f \in RequiredFields |-> "v1"],
                       !.tags = t] :
        t \in {Absent, Some(<<>>), Some(<<"a">>), Some(<<"b">>),
               Some(<<"a", "b">>)}}
    \cup {[NoPayload EXCEPT !.scalars = [f \in RequiredFields |-> "v2"],
                            !.ingredients = Some(<<"x">>)]}

NextRace ==
    \/ \E w \in Workers, p \in RacePayloads :
          Begin(w, "recipe_create", "u1", 0, p)
    \/ \E w \in Workers, pk \in 1..MaxRecipes, p \in RacePayloads,
          op \in {"recipe_update", "recipe_partial_update"} :
          Begin(w, op, "u1", pk, p)
    \/ \E w \in Workers : InsertRecipe(w)
    \/ \E w \in Workers : Clear(w)
    \/ \E w \in Workers : Get(w)
    \/ \E w \in Workers : Create(w)
    \/ \E w \in Workers : Add(w)
    \/ \E w \in Workers : Save(w)
    \/ \E w \in Workers : Finish(w)

SpecRace == Init /\ [][NextRace]_vars

\* both workers have run a successful update of the tags of one recipe to
\* its end
BothUpdated ==
    /\ \A w \in Workers :
          /\ inflight[w].pc = "done"
          /\ inflight[w].op \in {"recipe_update", "recipe_partial_update"}
          /\ inflight[w].status = HTTP_200_OK
          /\ inflight[w].payload.tags # Absent
    /\ \A v, w \in Workers : inflight[v].pk = inflight[w].pk

\* the names in the tags list of the request of worker w
Named(w) == Elems(The(inflight[w].payload.tags))
\* the names of the tags linked to the recipe the workers updated
FinalNames ==
    {tags[t].name : t \in DOMAIN recipes[inflight[1].pk].tags}

\* C16: the clear and the link calls of two updates of one recipe's tags,
\* with lists L1 and L2, interleave call by call.  What they leave is
\* decided call by call, not update by update: the final tag set holds the
\* tags of L1 or those of L2 (the update that cleared last) together with
\* whatever the other update linked after that clear, and nothing else.  It
\* need not be the set for L1 or the set for L2 (the witness).
C16_ClearRelinkRace ==
    BothUpdated
    => /\ \E w \in Workers : Named(w) \subseteq FinalNames
       /\ FinalNames \subseteq UNION {Named(w) : w \in Workers}

\* two updates with lists <<"a">> and <<"b">> have both ended 200 and the
\* recipe has both tags: neither the set for the one list nor for the other
C16_Witness ==
    /\ BothUpdated
    /\ Named(1) = {"a"}
    /\ Named(2) = {"b"}
    /\ FinalNames = {"a", "b"}

\* the rows of the collection worker w is reconciling
RowsOf(w, t, i) == IF Head(inflight[w].phases) = "tags" THEN t ELSE i

\* C18: the lookup and the insert of get_or_create are two steps with no
\* uniqueness constraint behind the insert: a request whose lookup found no
\* row inserts a row of the name for the caller, whatever other requests
\* inserted since its lookup.  So two requests of one user naming a tag the
\* user has not yet can leave two rows of that name (the witness).
C18_LookupThenInsert ==
    [][\A w \in Workers :
          (inflight[w].pc = "create" /\ inflight'[w].pc = "add")
          => LET before == RowsOf(w, tags, ingredients)
                 after == RowsOf(w, tags', ingredients')
                 id == inflight'[w].obj
             IN  /\ DOMAIN after = DOMAIN before \cup {id}
                 /\ id \notin DOMAIN before
                 /\ after[id] = [user |-> inflight[w].user,
                                 name |-> Head(inflight[w].todo)]
      ]_vars

\* two requests of one user that both named tag "a" have ended with
\* success, and the user has two Tag rows named "a"
C18_Witness ==
    /\ \A w \in Workers :
          /\ inflight[w].pc = "done"
          /\ inflight[w].status \in {HTTP_200_OK, HTTP_201_CREATED}
          /\ "a" \in Elems(ListOf(inflight[w].payload, "tags"))
    /\ \E t1, t2 \in DOMAIN tags :
          /\ t1 # t2
          /\ tags[t1] = [user |-> "u1", name |-> "a"]
          /\ tags[t2] = [user |-> "u1", name |-> "a"]

(***************************************************************************)
(* The wait_for_db management command (core/management/commands).          *)
(*   command  pc      the statement of handle() that runs next             *)
(*            db_up   the local db_up                                      *)
(*            out     the lines written to stdout                          *)
(*            slept   the time.sleep(1) calls made                         *)
(*            caught  the exceptions the except clause caught              *)
(*            error   the exception that left handle(), if any             *)
(*   database "up", "down" (connections are refused) or "misconfigured"    *)
(*            (the check fails for another reason)                         *)
(***************************************************************************)
OperationalErrors == {"Psycopg2OpError", "OperationalError"}

\* what self.check(databases=["default"]) can do in a state of the database
Outcomes(db) ==
    CASE db = "up" -> {"ok"}
      [] db = "down" -> OperationalErrors
      [] OTHER -> {"ImproperlyConfigured"}

\* an except clause that names django's OperationalError alone
Caught_django_only(exc) == exc = "OperationalError"

\* except (Psycopg20pError, OperationalError)
Caught(exc) == exc \in OperationalErrors

\* a step of the command changes command alone
CommandBecomes(c) ==
    /\ command' = c
    /\ UNCHANGED <<store, last, nreq, credential, blobs, nextBlobId, inflight,
                   database>>

\* self.stdout.write("waiting for db..."); db_up = False
WaitStart ==
    /\ command.pc = "start"
    /\ CommandBecomes([command EXCEPT !.pc = "check", !.db_up = FALSE,
                                      !.out = Append(@, "waiting for db...")])

\* one pass through the try of the while loop: the check succeeds and db_up
\* is set, or raises; a caught exception is reported and the loop sleeps,
\* any other leaves handle()
WaitCheck ==
    /\ command.pc = "check"
    /\ \E r \in Outcomes(database) :
          IF r = "ok"
          THEN CommandBecomes([command EXCEPT !.pc = "report",
                                              !.db_up = TRUE])
          ELSE IF Caught(r)
          THEN /\ Len(command.caught) < MaxRetries
               /\ CommandBecomes(
                      [command EXCEPT
                          !.pc = "sleep",
                          !.caught = Append(@, r),
                          !.out = Append(@, "db unavailable, waiting 1s")])
          ELSE CommandBecomes([command EXCEPT !.pc = "raised", !.error = r])

\* time.sleep(1), then the loop tests db_up again
WaitSleep ==
    /\ command.pc = "sleep"
    /\ CommandBecomes([command EXCEPT !.pc = "check", !.slept = @ + 1])

\* the loop is left: self.stdout.write(self.style.SUCCESS("db available!"))
WaitReport ==
    /\ command.pc = "report"
    /\ CommandBecomes([command EXCEPT !.pc = "done",
                                      !.out = Append(@, "db available!")])

\* the database server comes up, goes down, or is misconfigured
DatabaseBecomes(state) ==
    /\ database # state
    /\ database' = state
    /\ UNCHANGED <<store, last, nreq, credential, blobs, nextBlobId, inflight,
                   command>>

CommandStep == WaitStart \/ WaitCheck \/ WaitSleep \/ WaitReport

NextWait ==
    \/ WaitStart
    \/ WaitCheck
    \/ WaitSleep
    \/ WaitReport
    \/ \E state \in {"up", "down", "misconfigured"} : DatabaseBecomes(state)

\* the command is a running process: it takes its next step
SpecWait == Init /\ [][NextWait]_vars /\ WF_vars(CommandStep)

\* the lines "db unavailable, waiting 1s" of out
Unavailable ==
    {i \in 1..Len(command.out) : command.out[i] = "db unavailable, waiting 1s"}

\* availability is reported only after a check that succeeded, as the
\* last line; every caught failure is an OperationalError, was reported,
\* and was followed by a sleep of one second before the next check; an
\* exception that left the command is of another kind
WaitSafe ==
    /\ "db available!" \in Elems(command.out)
          => /\ command.db_up
             /\ command.pc = "done"
             /\ command.out[Len(command.out)] = "db available!"
    /\ command.pc = "done" <=> "db available!" \in Elems(command.out)
    /\ Elems(command.caught) \subseteq OperationalErrors
    /\ Cardinality(Unavailable) = Len(command.caught)
    /\ command.slept =
          Len(command.caught) - (IF command.pc = "sleep" THEN 1 ELSE 0)
    /\ command.pc = "raised" <=> command.error # "none"
    /\ command.error \notin OperationalErrors

\* a check with the database down is retried; with the database up it is the
\* last; with another error the command ends there and never runs on
WaitSteps ==
    /\ (command.pc = "check" /\ command' # command)
          => CASE database = "up" ->
                    command'.pc = "report" /\ command'.db_up
               [] database = "down" ->
                    /\ command'.pc = "sleep"
                    /\ ~command'.db_up
                    /\ Len(command'.caught) = Len(command.caught) + 1
               [] OTHER ->
                    command'.pc = "raised" /\ command'.out = command.out
    /\ command.pc \in {"done", "raised"} => command' = command
    /\ (command'.db_up /\ ~command.db_up)
          => command.pc = "check" /\ database = "up"

\* C20: wait_for_db retries the check after every psycopg2 or Django
\* OperationalError, sleeping one second in between, and ends with
\* "db available!" at the first check that succeeds; it never reports
\* availability before a check succeeded; an error of another kind is not
\* retried but ends the command; and the command terminates if the database
\* becomes available for good.
C20_WaitForDb ==
    /\ []WaitSafe
    /\ [][WaitSteps]_vars
    /\ (<>[](database = "up")) => <>(command.pc \in {"done", "raised"})

\* the command ended with "db available!" after one failure of each kind,
\* each followed by a sleep
C20_Witness ==
    /\ command.pc = "done"
    /\ command.caught = <<"Psycopg2OpError", "OperationalError">>
    /\ command.slept = 2
    /\ command.out = <<"waiting for db...", "db unavailable, waiting 1s",
                       "db unavailable, waiting 1s", "db available!">>

====
